---- MODULE Spec2Model ----
(***************************************************************************)
(* A model of the mkpy3 scripts                                            *)
(*   src/mkpy3/mkpy3_tess_tpf_overlay_v3.py  (str2bool, check_file_exists, *)
(*                                            the argparse __main__ block) *)
(*   src/mkpy3/check_mkpy3_v5.py             (the subprocess test runner)  *)
(*                                                                         *)
(* Python strings that the code inspects character by character (the       *)
(* values handed to str2bool, float, int and ast.literal_eval) are         *)
(* sequences of one-character strings; strings the code only passes along  *)
(* (file names, survey names, messages) are TLA+ strings.                  *)
(***************************************************************************)
EXTENDS Integers, Sequences, FiniteSets, TLC

VARIABLES
    \* ---- str2bool called by a client ----
    v,              \* the argument of the pending / last call of str2bool
    ret,            \* its outcome
    \* ---- check_file_exists called by a client ----
    name_main,      \* TRUE: the module ran as __main__ (os, sys bound, lines 235-236)
    fs,             \* the files that exist (os.path.isfile)
    call,           \* the arguments of the last call of check_file_exists
    outcome,        \* its outcome
    ncalls,         \* calls made so far
    \* ---- check_mkpy3_v5.py ----
    pc_runner, globbed, filel, sz, k, name, good, bad, running, result,
    returncode, line, launched, summary,
    \* ---- mkpy3_tess_tpf_overlay_v3.py run as a script ----
    pc_overlay, lightkurve_ok, argv, args, tpf, kwargs,
    rendered,       \* calls of mkpy3_tess_tpf_overlay_v3 so far
    exitcode, diag

vars_str2bool == <<v, ret>>
vars_guard    == <<name_main, fs, call, outcome, ncalls>>
vars_runner   == <<pc_runner, globbed, filel, sz, k, name, good, bad, running,
                   result, returncode, line, launched, summary>>
vars_overlay  == <<pc_overlay, lightkurve_ok, argv, args, tpf, kwargs,
                   rendered, exitcode, diag>>
vars == <<vars_str2bool, vars_guard, vars_runner, vars_overlay>>

(***************************************************************************)
(* Bounds of the model.                                                    *)
(***************************************************************************)
MaxLen == 2       \* longest arbitrary string handed to str2bool
MaxCalls == 2     \* calls of check_file_exists by one client
MaxScripts == 3   \* scripts ./mkpy3*.py in the runner's directory
MaxArgs == 2      \* option/value pairs on the overlay script's command line

(***************************************************************************)
(* Python strings as character sequences.                                  *)
(***************************************************************************)
UPPER == <<"A","B","C","D","E","F","G","H","I","J","K","L","M",
           "N","O","P","Q","R","S","T","U","V","W","X","Y","Z">>
LOWER == <<"a","b","c","d","e","f","g","h","i","j","k","l","m",
           "n","o","p","q","r","s","t","u","v","w","x","y","z">>

\* str.lower() on one character: A-Z to a-z, everything else unchanged
lower_char(c) ==
    IF \E i \in 1..26 : UPPER[i] = c
    THEN LOWER[CHOOSE i \in 1..26 : UPPER[i] = c]
    ELSE c

upper_char(c) ==
    IF \E i \in 1..26 : LOWER[i] = c
    THEN UPPER[CHOOSE i \in 1..26 : LOWER[i] = c]
    ELSE c

\* str.lower()
lower(s) == [i \in 1..Len(s) |-> lower_char(s[i])]

(***************************************************************************)
(* str2bool (lines 198-210).                                               *)
(***************************************************************************)
TrueWords  == { <<"y","e","s">>, <<"t","r","u","e">>, <<"t">>, <<"y">>, <<"1">> }
FalseWords == { <<"n","o">>, <<"f","a","l","s","e">>, <<"f">>, <<"n">>, <<"0">> }

\* an outcome of a call: a returned value, or a raised exception (and then
\* no value: the value field is a placeholder nothing reads)
Return(x)  == [kind |-> "return", value |-> x, exc |-> ""]
Raise(e)   == [kind |-> "raise", value |-> FALSE, exc |-> e]

\* mutant: the comparison without .lower()
str2bool_case_sensitive(s) ==
    IF s \in TrueWords THEN Return(TRUE)
    ELSE IF s \in FalseWords THEN Return(FALSE)
    ELSE Raise("ArgumentTypeError")

str2bool(s) ==
    IF lower(s) \in TrueWords THEN Return(TRUE)
    ELSE IF lower(s) \in FalseWords THEN Return(FALSE)
    ELSE Raise("ArgumentTypeError")

\* every spelling of word w in upper and lower case
CaseVariants(w) ==
    { [i \in 1..Len(w) |-> IF m[i] THEN upper_char(w[i]) ELSE w[i]] :
        m \in [1..Len(w) -> BOOLEAN] }

Alphabet == {"y", "Y", "n", "o", "t", "f", "1", "0", "2", " "}

\* every string over Alphabet of length at most n
Strings(n) == UNION { [1..len -> Alphabet] : len \in 0..n }

\* the strings a client hands to str2bool
Inputs ==
    UNION { CaseVariants(w) : w \in TrueWords \cup FalseWords }
    \cup Strings(MaxLen)
    \cup { <<"y","e","s"," ">>, <<"t","r","u">>, <<"m","a","y","b","e">>,
           <<"n","o","n","e">>, <<"o","n">>, <<"o","f","f">> }

Pending == [kind |-> "pending", value |-> FALSE, exc |-> ""]

Idle_str2bool == v = <<>> /\ ret = Pending

Init_str2bool == v \in Inputs /\ ret = Pending

\* the client evaluates str2bool(v)
Call_str2bool ==
    /\ ret = Pending
    /\ ret' = str2bool(v)
    /\ v' = v

\* the client, having caught or used the result, picks its next argument
Next_input ==
    /\ ret # Pending
    /\ v' \in Inputs
    /\ ret' = Pending

(***************************************************************************)
(* check_file_exists (lines 215-229).  The function reads the module       *)
(* globals os and sys.  Line 34 deletes sys after the start-up check and   *)
(* the only imports of os and sys are lines 235-236, inside                *)
(* if (__name__ == '__main__'): the two names are bound exactly when the   *)
(* module ran as a script (bound = name_main).                             *)
(***************************************************************************)
Files == {"out.png", "new.png", "old.png"}

msg == "Requested output file already exists (overwrite=False):"

Exit(code, printed) == [kind |-> "exit", code |-> code, printed |-> printed]
Returned            == [kind |-> "return", code |-> 0, printed |-> <<>>]
Raised(e)           == [kind |-> "raise", code |-> 1, printed |-> <<e>>]

check_file_exists(filename, overwrite, files, bound) ==
    IF ~overwrite
    THEN IF ~bound
         THEN Raised("NameError: name 'os' is not defined")     \* line 223
         ELSE IF filename \in files                             \* line 223
              THEN Exit(1, << "***** ERROR *****", msg,         \* lines 224-226
                              "new_filename=", filename >>)
              ELSE Returned
    ELSE Returned

NoCall == [filename |-> "", overwrite |-> FALSE]
NoOutcome == [kind |-> "none", code |-> 0, printed |-> <<>>]

\* The client either imported the module (name_main = FALSE) or works in
\* the namespace the script left behind (python3 -i, IPython's %run:
\* name_main = TRUE).
Idle_guard ==
    /\ name_main = FALSE /\ fs = {} /\ call = NoCall /\ outcome = NoOutcome
    /\ ncalls = 0

Init_guard ==
    /\ name_main \in BOOLEAN
    /\ fs \in SUBSET Files
    /\ call = NoCall
    /\ outcome = NoOutcome
    /\ ncalls = 0

\* a client calls check_file_exists(filename, overwrite); an exit or an
\* uncaught exception ends the client
Call_check_file_exists ==
    /\ outcome.kind \in {"none", "return"}
    /\ ncalls < MaxCalls
    /\ \E filename \in Files, overwrite \in BOOLEAN :
          /\ call' = [filename |-> filename, overwrite |-> overwrite]
          /\ outcome' = check_file_exists(filename, overwrite, fs, name_main)
    /\ ncalls' = ncalls + 1
    /\ UNCHANGED <<name_main, fs>>

(***************************************************************************)
(* check_mkpy3_v5.py (lines 28-56).  A script name is the rank of the name *)
(* in string order, so that sorted() is a sort of numbers.                 *)
(***************************************************************************)
ExitCodes == {0, 1, 2, -9}      \* exit statuses; negative: killed by a signal
Outputs == {"", "***** ERROR *****"}   \* what a child may print

\* sequences without repetition: what glob.glob may return, in any order
Injective(s) == \A i, j \in 1..Len(s) : s[i] = s[j] => i = j
Globs == { s \in UNION { [1..n -> 1..MaxScripts] : n \in 0..MaxScripts } :
             Injective(s) }

\* sorted(): insertion of each element into the sorted prefix
RECURSIVE insert(_, _)
insert(x, s) ==
    IF s = <<>> THEN <<x>>
    ELSE IF x <= Head(s) THEN <<x>> \o s
    ELSE <<Head(s)>> \o insert(x, Tail(s))

RECURSIVE sorted(_)
sorted(s) == IF s = <<>> THEN <<>> ELSE insert(Head(s), sorted(Tail(s)))

NoResult == [returncode |-> 0, stdout |-> "", stderr |-> ""]

Idle_runner ==
    /\ pc_runner = "idle" /\ globbed = <<>> /\ filel = <<>> /\ sz = 0
    /\ k = 0 /\ name = 0 /\ good = 0 /\ bad = 0 /\ running = {}
    /\ result = NoResult /\ returncode = 0 /\ line = "" /\ launched = <<>>
    /\ summary = ""

\* lines 28-31; globbed is what glob.glob('./mkpy3*.py') is about to return
Init_runner ==
    /\ pc_runner = "glob"
    /\ globbed \in Globs
    /\ filel = <<>> /\ sz = 0 /\ k = 0 /\ name = 0
    /\ good = 0 /\ bad = 0
    /\ running = {} /\ result = NoResult /\ returncode = 0
    /\ line = "" /\ launched = <<>> /\ summary = ""

\* lines 32-36
Discover ==
    /\ pc_runner = "glob"
    /\ filel' = sorted(globbed)
    /\ sz' = Len(sorted(globbed))
    /\ pc_runner' = "loop"
    /\ UNCHANGED <<globbed, k, name, good, bad, running, result, returncode,
                   line, launched, summary>>

\* mutant: subprocess.Popen in place of subprocess.run: the loop goes on
\* without waiting for the child
Launch_without_waiting ==
    /\ pc_runner = "loop"
    /\ k < sz
    /\ k' = k + 1
    /\ name' = filel[k + 1]
    /\ running' = running \cup {k + 1}
    /\ launched' = Append(launched, filel[k + 1])
    /\ pc_runner' = "loop"
    /\ UNCHANGED <<globbed, filel, sz, good, bad, result, returncode, line,
                   summary>>

\* lines 37-39: the next name of the enumeration, and subprocess.run starts
\* its child; run() returns only when the child has exited
Launch ==
    /\ pc_runner = "loop"
    /\ k < sz
    /\ k' = k + 1
    /\ name' = filel[k + 1]
    /\ running' = running \cup {k + 1}
    /\ launched' = Append(launched, filel[k + 1])
    /\ pc_runner' = "wait"
    /\ UNCHANGED <<globbed, filel, sz, good, bad, result, returncode, line,
                   summary>>

\* the child exits with some status, having printed something
ChildExit ==
    /\ running # {}
    /\ \E c \in running, rc \in ExitCodes, out \in Outputs, err \in Outputs :
          /\ running' = running \ {c}
          /\ result' = [returncode |-> rc, stdout |-> out, stderr |-> err]
    /\ pc_runner' = IF pc_runner = "wait" THEN "returned" ELSE pc_runner
    /\ UNCHANGED <<globbed, filel, sz, k, name, good, bad, returncode, line,
                   launched, summary>>

\* mutant: a child that printed an error banner counts as a failure
Classify_by_output ==
    /\ pc_runner = "returned"
    /\ returncode' = result.returncode
    /\ IF result.returncode # 0 \/ result.stdout # ""
       THEN bad' = bad + 1 /\ good' = good /\ line' = "***** ERROR FOUND *****"
       ELSE good' = good + 1 /\ bad' = bad /\ line' = "OK"
    /\ pc_runner' = "loop"
    /\ UNCHANGED <<globbed, filel, sz, k, name, running, result, launched,
                   summary>>

\* mutant: a child killed by a signal (negative status) is counted nowhere
Classify_positive_only ==
    /\ pc_runner = "returned"
    /\ returncode' = result.returncode
    /\ IF result.returncode > 0
       THEN bad' = bad + 1 /\ good' = good /\ line' = "***** ERROR FOUND *****"
       ELSE IF result.returncode = 0
       THEN good' = good + 1 /\ bad' = bad /\ line' = "OK"
       ELSE UNCHANGED <<good, bad, line>>
    /\ pc_runner' = "loop"
    /\ UNCHANGED <<globbed, filel, sz, k, name, running, result, launched,
                   summary>>

\* lines 40-48
Classify ==
    /\ pc_runner = "returned"
    /\ returncode' = result.returncode
    /\ IF result.returncode # 0
       THEN bad' = bad + 1 /\ good' = good /\ line' = "***** ERROR FOUND *****"
       ELSE good' = good + 1 /\ bad' = bad /\ line' = "OK"
    /\ pc_runner' = "loop"
    /\ UNCHANGED <<globbed, filel, sz, k, name, running, result, launched,
                   summary>>

\* lines 50-56
Summary ==
    /\ pc_runner = "loop"
    /\ k = sz
    /\ summary' = IF good = sz THEN "All files PASS" ELSE "files FAIL"
    /\ pc_runner' = "done"
    /\ UNCHANGED <<globbed, filel, sz, k, name, good, bad, running, result,
                   returncode, line, launched>>

(***************************************************************************)
(* mkpy3_tess_tpf_overlay_v3.py run as a script (lines 17-35, 234-420).    *)
(* The command line is a sequence of option/value pairs.  A value is the   *)
(* TLA+ string s for the options of type str and the character sequence    *)
(* cs for the options whose type inspects the text.  A float is its value  *)
(* in thousandths.  In the text of a literal a quoted string and the name  *)
(* None are one element each.                                              *)
(***************************************************************************)
BoolOptions  == {"show_plot", "overwrite", "print_gaia_dr2", "print_vsx",
                 "sexagesimal", "verbose"}
FloatOptions == {"width_height_arcmin", "shrink", "percentile"}
LiteralOptions == {"figsize_str", "colors_str", "lws_str", "zorders_str",
                   "marker_kwargs_str", "gaia_dr2_kwargs_str",
                   "vsx_kwargs_str"}
StrOptions   == {"survey", "plot_file"}
OptStrOptions == {"tpf_filename", "title", "cmap"}   \* type=str, default=None
Options == BoolOptions \cup FloatOptions \cup LiteralOptions \cup StrOptions
           \cup OptStrOptions \cup {"frame"}

None    == [none |-> TRUE,  s |-> ""]
Some(x) == [none |-> FALSE, s |-> x]

DIGITS == <<"0","1","2","3","4","5","6","7","8","9">>
IsDigit(c) == \E i \in 1..10 : DIGITS[i] = c
DigitValue(c) == (CHOOSE i \in 1..10 : DIGITS[i] = c) - 1

\* int() of a string of decimal digits
RECURSIVE int_(_)
int_(cs) ==
    IF cs = <<>> THEN 0
    ELSE 10 * int_(SubSeq(cs, 1, Len(cs) - 1)) + DigitValue(cs[Len(cs)])

AllDigits(cs) == cs # <<>> /\ \A i \in 1..Len(cs) : IsDigit(cs[i])

\* float() of "digits.digits" with at most three decimals, in thousandths
IsFloatText(cs) ==
    \E d \in 1..Len(cs) :
        /\ cs[d] = "."
        /\ AllDigits(SubSeq(cs, 1, d - 1))
        /\ AllDigits(SubSeq(cs, d + 1, Len(cs)))
        /\ Len(cs) - d <= 3

Pow10(n) == IF n = 0 THEN 1 ELSE IF n = 1 THEN 10 ELSE IF n = 2 THEN 100 ELSE 1000

float_(cs) ==
    LET d == CHOOSE i \in 1..Len(cs) : cs[i] = "."
        frac == SubSeq(cs, d + 1, Len(cs))
    IN  1000 * int_(SubSeq(cs, 1, d - 1)) + int_(frac) * Pow10(3 - Len(frac))

\* str() of a natural number
RECURSIVE str_int(_)
str_int(n) ==
    IF n < 10 THEN <<DIGITS[n + 1]>>
    ELSE str_int(n \div 10) \o <<DIGITS[(n % 10) + 1]>>

\* the quoted strings that occur in literals
Quoted == {"'dodgerblue'", "'red'", "'None'", "'edgecolor'", "'yellow'",
           "'cyan'", "'s'", "'facecolor'", "'lw'", "'zorder'", "'color'",
           "'lawngreen'", "'marker'", "'x'"}

\* the text between separators
RECURSIVE split(_, _, _, _)
split(cs, sep, cur, acc) ==
    IF cs = <<>> THEN Append(acc, cur)
    ELSE IF Head(cs) = sep THEN split(Tail(cs), sep, <<>>, Append(acc, cur))
    ELSE split(Tail(cs), sep, Append(cur, Head(cs)), acc)

strip_spaces(cs) == SelectSeq(cs, LAMBDA c : c # " ")

\* the items of a bracketed text t, spaces removed
Items(t) ==
    IF Len(t) = 2 THEN <<>> ELSE split(SubSeq(t, 2, Len(t) - 1), ",", <<>>, <<>>)

\* an int, None or a string
IntAtom(n) == [t |-> "int", n |-> n, s |-> ""]
StrAtom(q) == [t |-> "str", n |-> 0, s |-> q]
NoneAtom   == [t |-> "none", n |-> 0, s |-> ""]

IsAtomText(x) ==
    AllDigits(x) \/ x = <<"None">> \/ (Len(x) = 1 /\ x[1] \in Quoted)

atom(x) ==
    IF AllDigits(x) THEN IntAtom(int_(x))
    ELSE IF x = <<"None">> THEN NoneAtom
    ELSE StrAtom(x[1])

\* repr() of an int, None or a string
repr(a) ==
    IF a.t = "int" THEN str_int(a.n)
    ELSE IF a.t = "none" THEN <<"None">>
    ELSE <<a.s>>

IsPairText(x) ==
    LET kv == split(x, ":", <<>>, <<>>)
    IN  Len(kv) = 2 /\ IsAtomText(kv[1]) /\ IsAtomText(kv[2])

\* the text is a list or a dictionary of ints, None and strings, or an int,
\* or None
IsLiteralText(cs) ==
    LET t == strip_spaces(cs)
    IN  \/ AllDigits(t)
        \/ t = <<"None">>
        \/ /\ Len(t) >= 2
           /\ t[1] = "[" /\ t[Len(t)] = "]"
           /\ \A i \in 1..Len(Items(t)) : IsAtomText(Items(t)[i])
        \/ /\ Len(t) >= 2
           /\ t[1] = "{" /\ t[Len(t)] = "}"
           /\ \A i \in 1..Len(Items(t)) : IsPairText(Items(t)[i])

\* ast.literal_eval: a list (vals), a dictionary (keys and vals, in the
\* order written) or a single value
literal_eval(cs) ==
    LET t == strip_spaces(cs)
        items == Items(t)
    IN  IF t[1] = "["
        THEN [kind |-> "list", keys |-> <<>>,
              vals |-> [i \in 1..Len(items) |-> atom(items[i])]]
        ELSE IF t[1] = "{"
        THEN [kind |-> "dict",
              keys |-> [i \in 1..Len(items) |->
                          atom(split(items[i], ":", <<>>, <<>>)[1])],
              vals |-> [i \in 1..Len(items) |->
                          atom(split(items[i], ":", <<>>, <<>>)[2])]]
        ELSE [kind |-> "atom", keys |-> <<>>, vals |-> <<atom(t)>>]

\* the texts joined by ", "
RECURSIVE join(_)
join(parts) ==
    IF parts = <<>> THEN <<>>
    ELSE IF Len(parts) = 1 THEN parts[1]
    ELSE parts[1] \o <<",", " ">> \o join(Tail(parts))

\* str() of an evaluated literal
str_(x) ==
    IF x.kind = "list"
    THEN <<"[">> \o join([i \in 1..Len(x.vals) |-> repr(x.vals[i])]) \o <<"]">>
    ELSE IF x.kind = "dict"
    THEN <<"{">>
         \o join([i \in 1..Len(x.vals) |->
                    repr(x.keys[i]) \o <<":", " ">> \o repr(x.vals[i])])
         \o <<"}">>
    ELSE repr(x.vals[1])

\* the value of one option/value pair, or the exception its type raises
Ok(x)      == [exc |-> "", val |-> <<x>>]
Fails(e)   == [exc |-> e, val |-> <<>>]

Convert(o, a) ==
    IF o \in BoolOptions
    THEN IF str2bool(a.cs).kind = "return"
         THEN Ok(str2bool(a.cs).value)
         ELSE Fails(str2bool(a.cs).exc)
    ELSE IF o \in FloatOptions
    THEN IF IsFloatText(a.cs) THEN Ok(float_(a.cs)) ELSE Fails("ValueError")
    ELSE IF o = "frame"
    THEN IF AllDigits(a.cs) THEN Ok(int_(a.cs)) ELSE Fails("ValueError")
    ELSE IF o \in LiteralOptions
    THEN IF IsLiteralText(a.cs) THEN Ok(literal_eval(a.cs))
         ELSE Fails("SyntaxError")
    ELSE IF o \in OptStrOptions THEN Ok(Some(a.s))
    ELSE Ok(a.s)

\* the default texts of the literal options (lines 274-326)
figsize_text == <<"[","9",",","9","]">>
colors_text  == <<"[","None",",","'dodgerblue'",",","'red'","]">>
lws_text     == <<"[","0",",","3",",","4","]">>
zorders_text == <<"[","0",",","1",",","2","]">>
marker_kwargs_text ==
    <<"{","'edgecolor'",":","'yellow'",","," ","'s'",":","6","0","0",","," ",
      "'facecolor'",":","'None'",","," ","'lw'",":","3",","," ",
      "'zorder'",":","1","0","}">>
gaia_dr2_kwargs_text ==
    <<"{","'edgecolor'",":","'cyan'",","," ","'s'",":","1","5","0",","," ",
      "'facecolor'",":","'None'",","," ","'lw'",":","3",","," ",
      "'zorder'",":","2","0","}">>
vsx_kwargs_text ==
    <<"{","'s'",":","9","0","0",","," ","'color'",":","'lawngreen'",","," ",
      "'marker'",":","'x'",","," ","'lw'",":","5",","," ",
      "'zorder'",":","3","0","}">>

\* add_argument(default=...), lines 247-335, after argparse has passed the
\* defaults that are strings through the option's type
cmap_default == None                                          \* line 285

Default(o) ==
    CASE o = "tpf_filename"        -> None
      [] o = "frame"               -> 0
      [] o = "survey"              -> "2MASS-J"
      [] o = "width_height_arcmin" -> 6000
      [] o = "shrink"              -> 1000
      [] o = "show_plot"           -> TRUE
      [] o = "plot_file"           -> "mkpy3_plot.png"
      [] o = "overwrite"           -> FALSE
      [] o = "figsize_str"         -> literal_eval(figsize_text)
      [] o = "title"               -> None
      [] o = "percentile"          -> 99500
      [] o = "cmap"                -> cmap_default
      [] o = "colors_str"          -> literal_eval(colors_text)
      [] o = "lws_str"             -> literal_eval(lws_text)
      [] o = "zorders_str"         -> literal_eval(zorders_text)
      [] o = "marker_kwargs_str"   -> literal_eval(marker_kwargs_text)
      [] o = "gaia_dr2_kwargs_str" -> literal_eval(gaia_dr2_kwargs_text)
      [] o = "vsx_kwargs_str"      -> literal_eval(vsx_kwargs_text)
      [] o = "print_gaia_dr2"      -> TRUE
      [] o = "print_vsx"           -> TRUE
      [] o = "sexagesimal"         -> FALSE
      [] o = "verbose"             -> FALSE

Defaults == [o \in Options |-> Default(o)]

\* ArgumentParser.parse_args: the pairs in command-line order; the first
\* value its type rejects ends the parse
RECURSIVE parse_args(_, _)
parse_args(rest, ns) ==
    IF rest = <<>> THEN [status |-> "ok", ns |-> ns, opt |-> "", exc |-> ""]
    ELSE LET a == Head(rest)
             c == Convert(a.opt, a)
         IN  IF c.exc = ""
             THEN parse_args(Tail(rest), [ns EXCEPT ![a.opt] = c.val[1]])
             ELSE [status |-> "failed", ns |-> ns, opt |-> a.opt, exc |-> c.exc]

\* the exceptions ArgumentParser turns into a usage error
UsageErrors == {"ArgumentTypeError", "ValueError", "TypeError"}

Arg(o, s, cs) == [opt |-> o, s |-> s, cs |-> cs]

BoolTexts == { <<"Y","e","s">>, <<"0">>, <<"m","a","y","b","e">> }

\* the option/value pairs a command line is made of
Pairs ==
    { Arg("tpf_filename", f, <<>>) :
        f \in {"tess.fits", "kepler.fits", "missing.fits"} }
    \cup { Arg(o, "", t) : o \in BoolOptions, t \in BoolTexts }
    \cup { Arg("frame", "", <<"3">>),
           Arg("survey", "DSS2 Red", <<>>),
           Arg("width_height_arcmin", "", <<"4",".","0">>),
           Arg("shrink", "", <<"0",".","5">>),
           Arg("plot_file", "out.png", <<>>),
           Arg("figsize_str", "", <<"[","8",","," ","6","]">>),
           Arg("figsize_str", "", <<"[","8",",">>),
           Arg("title", "My title", <<>>),
           Arg("percentile", "", <<"9","5",".","0">>),
           Arg("cmap", "viridis", <<>>),
           Arg("lws_str", "", <<"[","1",",","2",",","3","]">>),
           Arg("zorders_str", "", <<"[","1","0",",","2",",","3","]">>),
           Arg("colors_str", "", <<"[","'red'",",","None",",","'cyan'","]">>),
           Arg("marker_kwargs_str", "", <<"None">>),
           Arg("gaia_dr2_kwargs_str", "", <<"{","'s'",":","5","}">>),
           Arg("vsx_kwargs_str", "", <<"{","'marker'",":","'x'",",","'lw'",":","2","}">>) }

CommandLines == UNION { [1..n -> Pairs] : n \in 0..MaxArgs }

\* the files lk.open can read, and the mission each belongs to
OnDisk == {"tess.fits", "kepler.fits"}
Mission(f) == IF f = "tess.fits" THEN "TESS" ELSE "Kepler"

NoKwargs == [o \in {} |-> 0]

Idle_overlay ==
    /\ pc_overlay = "idle" /\ lightkurve_ok = FALSE /\ argv = <<>>
    /\ args = Defaults /\ tpf = "" /\ kwargs = NoKwargs /\ rendered = 0
    /\ exitcode = 0 /\ diag = <<>>

Init_overlay ==
    /\ pc_overlay = "start"
    /\ lightkurve_ok \in BOOLEAN
    /\ argv \in CommandLines
    /\ args = Defaults /\ tpf = "" /\ kwargs = NoKwargs /\ rendered = 0
    /\ exitcode = 0 /\ diag = <<>>

\* lines 17-35: the check of the local setup
Startup ==
    /\ pc_overlay = "start"
    /\ IF lightkurve_ok
       THEN pc_overlay' = "parse" /\ UNCHANGED <<exitcode, diag>>
       ELSE /\ pc_overlay' = "exited"
            /\ exitcode' = 1
            /\ diag' = << "***** ERROR *****",
                          "The Python package lightkurve needs to be installed." >>
    /\ UNCHANGED <<lightkurve_ok, argv, args, tpf, kwargs, rendered>>

\* mutant: a value its type rejects is skipped and the parse goes on
ParseArgs_skips_rejected ==
    /\ pc_overlay = "parse"
    /\ args' = parse_args(argv, Defaults).ns
    /\ pc_overlay' = "load"
    /\ UNCHANGED <<exitcode, diag>>
    /\ UNCHANGED <<lightkurve_ok, argv, tpf, kwargs, rendered>>

\* lines 245-337; a usage error leaves through ArgumentParser.error, whose
\* exit status is 2
ParseArgs ==
    /\ pc_overlay = "parse"
    /\ LET r == parse_args(argv, Defaults)
       IN  IF r.status = "ok"
           THEN /\ args' = r.ns
                /\ pc_overlay' = "load"
                /\ UNCHANGED <<exitcode, diag>>
           ELSE IF r.exc \in UsageErrors
           THEN /\ pc_overlay' = "exited"
                /\ exitcode' = 2
                /\ diag' = << "usage:", "error: argument", r.opt,
                              IF r.exc = "ArgumentTypeError"
                              THEN "Boolean value expected."
                              ELSE "invalid value" >>
                /\ args' = args
           ELSE /\ pc_overlay' = "exited"      \* an exception argparse lets through
                /\ exitcode' = 1
                /\ diag' = << "Traceback", r.exc >>
                /\ args' = args
    /\ UNCHANGED <<lightkurve_ok, argv, tpf, kwargs, rendered>>

\* mutant: the title is replaced only when the user gave none
default_cutout_keeps_title(ns) ==
    [ns EXCEPT !["shrink"] = (@ * 8) \div 10,
               !["title"] = IF @.none THEN Some("XZ Cyg : TESS : Sector 14") ELSE @]

\* lines 380-381: shrink *= 0.8 and the title of the default cutout
default_cutout(ns) ==
    [ns EXCEPT !["shrink"] = (@ * 8) \div 10,
               !["title"] = Some("XZ Cyg : TESS : Sector 14")]

\* lines 342-382; the file is opened, or the default cutout is downloaded
\* (a download ends in a TPF, in nothing, or in an exception)
LoadTPF ==
    /\ pc_overlay = "load"
    /\ IF ~args["tpf_filename"].none
       THEN LET g == check_file_exists(args["tpf_filename"].s, TRUE, OnDisk, TRUE)
            IN  IF g.kind # "return"
                THEN /\ pc_overlay' = "exited" /\ exitcode' = g.code
                     /\ diag' = g.printed /\ UNCHANGED <<tpf, args>>
                ELSE IF args["tpf_filename"].s \in OnDisk
                THEN /\ tpf' = Mission(args["tpf_filename"].s)
                     /\ pc_overlay' = "check"
                     /\ UNCHANGED <<exitcode, diag, args>>
                ELSE /\ pc_overlay' = "exited" /\ exitcode' = 1
                     /\ diag' = << "Traceback", "FileNotFoundError" >>
                     /\ UNCHANGED <<tpf, args>>
       ELSE \E download \in {"TESS", "None", "raise"} :
               IF download = "raise"
               THEN /\ pc_overlay' = "exited" /\ exitcode' = 1
                    /\ diag' = << "Traceback", "download" >>
                    /\ UNCHANGED <<tpf, args>>
               ELSE /\ tpf' = download
                    /\ args' = default_cutout(args)
                    /\ pc_overlay' = "check"
                    /\ UNCHANGED <<exitcode, diag>>
    /\ UNCHANGED <<lightkurve_ok, argv, kwargs, rendered>>

not_tess == "*** ERROR *** This file does not appear to be a TESS TargetPixelFile"

\* mutant: the diagnostic is printed and the script goes on
CheckTESS_without_exit ==
    /\ pc_overlay = "check"
    /\ pc_overlay' = "render"
    /\ IF tpf = "TESS"
       THEN UNCHANGED <<exitcode, diag>>
       ELSE exitcode' = 1 /\ diag' = << not_tess, "Bye..." >>
    /\ UNCHANGED <<lightkurve_ok, argv, args, tpf, kwargs, rendered>>

\* lines 383-395
CheckTESS ==
    /\ pc_overlay = "check"
    /\ IF tpf = "TESS"
       THEN pc_overlay' = "render" /\ UNCHANGED <<exitcode, diag>>
       ELSE /\ pc_overlay' = "exited"
            /\ exitcode' = 1
            /\ diag' = << not_tess, "Bye..." >>
    /\ UNCHANGED <<lightkurve_ok, argv, args, tpf, kwargs, rendered>>

\* lines 342-363: the locals, with str() of the evaluated literals
Config(ns) ==
    [o \in Options \ {"tpf_filename"} |->
        IF o \in LiteralOptions THEN str_(ns[o]) ELSE ns[o]]

\* lines 397-420 and 166-192: the configuration is handed to the rendering
\* delegate, which ends well or not
Render ==
    /\ pc_overlay = "render"
    /\ kwargs' = Config(args)
    /\ rendered' = rendered + 1
    /\ \E status \in {0, 1} : exitcode' = status
    /\ pc_overlay' = "done"
    /\ UNCHANGED <<lightkurve_ok, argv, args, tpf, diag>>

(***************************************************************************)
(* The specifications: one per program, the others idle.                   *)
(***************************************************************************)
Next_str2bool ==
    \/ Call_str2bool /\ UNCHANGED <<vars_guard, vars_runner, vars_overlay>>
    \/ Next_input /\ UNCHANGED <<vars_guard, vars_runner, vars_overlay>>

InitStr2bool == Init_str2bool /\ Idle_guard /\ Idle_runner /\ Idle_overlay

SpecStr2bool == InitStr2bool /\ [][Next_str2bool]_vars

Next_guard ==
    Call_check_file_exists /\ UNCHANGED <<vars_str2bool, vars_runner, vars_overlay>>

InitGuard == Idle_str2bool /\ Init_guard /\ Idle_runner /\ Idle_overlay

SpecGuard == InitGuard /\ [][Next_guard]_vars

Next_runner ==
    \/ Discover /\ UNCHANGED <<vars_str2bool, vars_guard, vars_overlay>>
    \/ Launch /\ UNCHANGED <<vars_str2bool, vars_guard, vars_overlay>>
    \/ ChildExit /\ UNCHANGED <<vars_str2bool, vars_guard, vars_overlay>>
    \/ Classify /\ UNCHANGED <<vars_str2bool, vars_guard, vars_overlay>>
    \/ Summary /\ UNCHANGED <<vars_str2bool, vars_guard, vars_overlay>>

InitRunner == Idle_str2bool /\ Idle_guard /\ Init_runner /\ Idle_overlay

SpecRunner == InitRunner /\ [][Next_runner]_vars

\* the runner's own steps are taken when enabled, and every child exits
FairSpecRunner == SpecRunner /\ WF_vars(Next_runner)

Next_overlay ==
    \/ Startup /\ UNCHANGED <<vars_str2bool, vars_guard, vars_runner>>
    \/ ParseArgs /\ UNCHANGED <<vars_str2bool, vars_guard, vars_runner>>
    \/ LoadTPF /\ UNCHANGED <<vars_str2bool, vars_guard, vars_runner>>
    \/ CheckTESS /\ UNCHANGED <<vars_str2bool, vars_guard, vars_runner>>
    \/ Render /\ UNCHANGED <<vars_str2bool, vars_guard, vars_runner>>

InitOverlay == Idle_str2bool /\ Idle_guard /\ Idle_runner /\ Init_overlay

SpecOverlay == InitOverlay /\ [][Next_overlay]_vars

(***************************************************************************)
(* The claims.                                                             *)
(***************************************************************************)
Range(s) == { s[i] : i \in 1..Len(s) }

\* C1: str2bool(v) returns True for every string whose lower-cased form is
\* one of 'yes','true','t','y','1', returns False for every string whose
\* lower-cased form is one of 'no','false','f','n','0', and for every other
\* string raises argparse.ArgumentTypeError and returns no value.
C1_str2bool ==
    ret # Pending =>
        LET l == lower(v)
            yes == l \in { <<"y","e","s">>, <<"t","r","u","e">>, <<"t">>,
                           <<"y">>, <<"1">> }
            no  == l \in { <<"n","o">>, <<"f","a","l","s","e">>, <<"f">>,
                           <<"n">>, <<"0">> }
        IN  /\ yes => ret.kind = "return" /\ ret.value = TRUE
            /\ no  => ret.kind = "return" /\ ret.value = FALSE
            /\ ~yes /\ ~no => ret.kind = "raise" /\ ret.exc = "ArgumentTypeError"

\* a spelling with capitals has been accepted as True
C1_witness == ret.kind = "return" /\ ret.value = TRUE /\ v = <<"T","r","U","e">>

\* C2: whenever filename is an existing file and overwrite is False,
\* check_file_exists exits with status 1 after printing an error containing
\* "already exists", and control never returns to the caller.
C2_guard_aborts ==
    (outcome.kind # "none" /\ call.filename \in fs /\ ~call.overwrite) =>
        /\ outcome.kind = "exit"
        /\ outcome.code = 1
        /\ msg \in Range(outcome.printed)

\* C3: check_file_exists returns normally, without exiting or printing an
\* error, whenever overwrite is True (the file existing or not) and whenever
\* filename does not exist (whatever the overwrite flag).
C3_guard_never_blocks ==
    (outcome.kind # "none" /\ (call.overwrite \/ call.filename \notin fs)) =>
        /\ outcome.kind = "return"
        /\ outcome.printed = <<>>

\* C4: after the k-th script has been processed good + bad = k, and when the
\* summary is printed good + bad is the number of discovered scripts.
C4_counts ==
    /\ pc_runner = "loop" => good + bad = k
    /\ pc_runner \in {"wait", "returned"} => good + bad = k - 1
    /\ pc_runner = "done" =>
          /\ good + bad = Cardinality(Range(globbed))
          /\ sz = Cardinality(Range(globbed))

\* the summary is printed after passes, failures and a child killed by a signal
C4_witness ==
    pc_runner = "done" /\ good >= 1 /\ bad >= 1 /\ returncode < 0

\* C5: a script is counted as a pass if and only if its child returned exit
\* code 0 and as a fail for every other exit code, whatever the child printed;
\* the counts change in no other step.
C5_by_exit_code ==
    [][ /\ (pc_runner = "returned" /\ pc_runner' = "loop") =>
              IF result.returncode = 0
              THEN good' = good + 1 /\ bad' = bad /\ line' = "OK"
              ELSE good' = good /\ bad' = bad + 1 /\ line' # "OK"
        /\ (good' # good \/ bad' # bad) => pc_runner = "returned"
      ]_vars

\* a child that printed an error banner and exited with 0 was counted a pass
C5_witness ==
    /\ pc_runner = "loop" /\ line = "OK" /\ good >= 1
    /\ result.returncode = 0 /\ result.stdout # "" /\ result.stderr # ""

IsSortedStrict(s) == \A i, j \in 1..Len(s) : i < j => s[i] < s[j]

\* C6: at no point are two children running; a child is started only when
\* the one before it has exited; the scripts are launched once each, in
\* sorted name order; and when every child exits the summary is printed.
C6_one_at_a_time ==
    /\ [](Cardinality(running) <= 1)
    /\ [][launched' # launched => running = {} /\ running' = {k'}]_vars
    /\ [](pc_runner # "glob" =>
            /\ launched = SubSeq(filel, 1, k)
            /\ IsSortedStrict(launched)
            /\ Range(launched) \subseteq Range(globbed))
    /\ [](pc_runner = "done" => Range(launched) = Range(globbed))
    /\ <>(pc_runner = "done")

\* glob returned the names out of order and every one of them has run
C6_witness ==
    /\ pc_runner = "done" /\ Len(launched) >= 2 /\ globbed # launched
    /\ running = {}

\* the command line holds a value for a boolean option that str2bool rejects
InvalidBool(a) == a.opt \in BoolOptions /\ str2bool(a.cs).kind = "raise"
HasInvalidBool == \E i \in 1..Len(argv) : InvalidBool(argv[i])

\* the first value of the command line that its type rejects is such a value
FirstRejectedIsBool ==
    \E i \in 1..Len(argv) :
        /\ InvalidBool(argv[i])
        /\ \A j \in 1..(i - 1) : Convert(argv[j].opt, argv[j]).exc = ""

\* C7 as stated: an invalid CLI boolean string terminates the process
\* immediately with a printed diagnostic and exit status 1, and the
\* rendering function is never called.
C7_exit_status_one ==
    HasInvalidBool =>
        /\ pc_overlay \notin {"load", "check", "render", "done"}
        /\ rendered = 0
        /\ pc_overlay = "exited" => exitcode = 1 /\ diag # <<>>

\* C7 as amended: a command line holding an invalid boolean string never
\* reaches the rendering function, and when argument parsing evaluates the
\* string (lightkurve is importable and no earlier value is rejected) the
\* process ends there with argparse's usage error "Boolean value expected."
\* and exit status 2.
C7_usage_error ==
    HasInvalidBool =>
        /\ pc_overlay \notin {"load", "check", "render", "done"}
        /\ rendered = 0
        /\ (pc_overlay = "exited" /\ lightkurve_ok /\ FirstRejectedIsBool) =>
              /\ exitcode = 2
              /\ "Boolean value expected." \in Range(diag)

\* --verbose maybe has ended the script in argument parsing
C7_witness ==
    /\ pc_overlay = "exited" /\ lightkurve_ok /\ exitcode = 2
    /\ \E i \in 1..Len(argv) :
          argv[i].opt = "verbose" /\ argv[i].cs = <<"m","a","y","b","e">>

\* the defaults the help texts (lines 247-335) and the signature of
\* mkpy3_tess_tpf_overlay_v3 (lines 40-66) document
Documented(o) ==
    CASE o = "frame"               -> 0
      [] o = "survey"              -> "2MASS-J"
      [] o = "width_height_arcmin" -> 6000
      [] o = "shrink"              -> 1000
      [] o = "show_plot"           -> TRUE
      [] o = "plot_file"           -> "mkpy3_plot.png"
      [] o = "overwrite"           -> FALSE
      [] o = "figsize_str"         -> figsize_text
      [] o = "title"               -> None
      [] o = "percentile"          -> 99500
      [] o = "cmap"                -> Some("gray_r")
      [] o = "colors_str"          -> colors_text
      [] o = "lws_str"             -> lws_text
      [] o = "zorders_str"         -> zorders_text
      [] o = "marker_kwargs_str"   -> marker_kwargs_text
      [] o = "gaia_dr2_kwargs_str" -> gaia_dr2_kwargs_text
      [] o = "vsx_kwargs_str"      -> vsx_kwargs_text
      [] o = "print_gaia_dr2"      -> TRUE
      [] o = "print_vsx"           -> TRUE
      [] o = "sexagesimal"         -> FALSE
      [] o = "verbose"             -> FALSE

Given(o) == \E i \in 1..Len(argv) : argv[i].opt = o

\* C8: for each option omitted from the command line, the value handed to
\* mkpy3_tess_tpf_overlay_v3 equals the option's documented default.
C8_documented_defaults ==
    rendered > 0 =>
        \A o \in Options \ {"tpf_filename"} :
            ~Given(o) => kwargs[o] = Documented(o)

\* C9: the rendering function is called at most once per run and only after
\* the loaded TPF has passed the mission check; when the mission is not
\* 'TESS' (or there is no TPF to read it from) the script prints the
\* diagnostic and exits with status 1 without calling the rendering function.
C9_render_after_check ==
    /\ rendered <= 1
    /\ (rendered > 0 \/ pc_overlay = "render") => tpf = "TESS"
    /\ (tpf \notin {"", "TESS"} /\ pc_overlay # "check") =>
          /\ pc_overlay = "exited"
          /\ exitcode = 1
          /\ not_tess \in Range(diag)
          /\ rendered = 0

\* a Kepler file has been turned away
C9_witness ==
    pc_overlay = "exited" /\ tpf = "Kepler" /\ exitcode = 1 /\ rendered = 0

\* what parse_args made of the command line
Parsed == parse_args(argv, Defaults).ns

DefaultText(o) ==
    CASE o = "figsize_str"         -> figsize_text
      [] o = "colors_str"          -> colors_text
      [] o = "lws_str"             -> lws_text
      [] o = "zorders_str"         -> zorders_text
      [] o = "marker_kwargs_str"   -> marker_kwargs_text
      [] o = "gaia_dr2_kwargs_str" -> gaia_dr2_kwargs_text
      [] o = "vsx_kwargs_str"      -> vsx_kwargs_text

\* the text of a literal option: the last one given for it, or its default
Text(o) ==
    IF Given(o)
    THEN argv[CHOOSE i \in 1..Len(argv) :
                /\ argv[i].opt = o
                /\ \A j \in (i + 1)..Len(argv) : argv[j].opt # o].cs
    ELSE DefaultText(o)

\* shrink and title as the claim has them (0.8 times a value in thousandths)
ShrinkAndTitle(parsed) ==
    IF ~parsed["tpf_filename"].none
    THEN /\ kwargs["shrink"] = parsed["shrink"]
         /\ kwargs["title"] = parsed["title"]
    ELSE /\ kwargs["shrink"] = (parsed["shrink"] * 8) \div 10
         /\ kwargs["title"] = Some("XZ Cyg : TESS : Sector 14")

PassedOptions == Options \ {"tpf_filename", "shrink", "title"}

\* C10 as stated: shrink and title are the parsed values when --tpf_filename
\* is given, and 0.8 times the parsed shrink and 'XZ Cyg : TESS : Sector 14'
\* when it is absent; every other option is passed through unchanged (a
\* literal option: the text it had).
C10_unchanged ==
    rendered > 0 =>
        LET parsed == Parsed
        IN  /\ ShrinkAndTitle(parsed)
            /\ \A o \in PassedOptions :
                  kwargs[o] = IF o \in LiteralOptions THEN Text(o) ELSE parsed[o]

\* C10 as amended: the same, except that the seven literal options are
\* passed as str() of the value ast.literal_eval made of their text.
C10_literals_reformatted ==
    rendered > 0 =>
        LET parsed == Parsed
        IN  /\ ShrinkAndTitle(parsed)
            /\ \A o \in PassedOptions :
                  kwargs[o] = IF o \in LiteralOptions THEN str_(parsed[o])
                              ELSE parsed[o]

\* the default cutout was rendered although the user gave a title and a shrink
C10_witness ==
    /\ rendered > 0 /\ Parsed["tpf_filename"].none
    /\ Given("title") /\ Given("shrink")
    /\ kwargs["title"] = Some("XZ Cyg : TESS : Sector 14")
    /\ kwargs["shrink"] = 400

====
